---- MODULE Spec2Model ----
(***************************************************************************)
(* Ticket ledger of src/69.py (TicketTransaction, Block, TicketBlockchain). *)
(* Python lists are objects: the ledger's pending pool and every block's   *)
(* transaction list are references into `heap`, so that sharing of a list  *)
(* between the pool and a block is visible.                                *)
(***************************************************************************)
EXTENDS Integers, Sequences, FiniteSets, TLC

\* ---- bound of the model: transactions accepted in a run ----
MaxTxs == 3
\* the largest nonce of a block handed to proof_of_work
MaxNonce == 3

\* ---- program constants ----
difficulty == 2
HexBase == 16
DigestLen == 2
DigestRange == 19

\* the tickets the application preloads
demo_tickets ==
  <<<<"Alice", "Concert A">>, <<"Bob", "Concert B">>, <<"Charlie", "Sports Event C">>>>
Owners == {demo_tickets[i][1] : i \in DOMAIN demo_tickets}
Events == {demo_tickets[i][2] : i \in DOMAIN demo_tickets}
\* the names typed into the "New Owner" field
NewOwners == {"Alice", "Bob"}
\* str(uuid.uuid4()): identifiers are named by the order in which they are drawn
TicketIds == 1..MaxTxs
None == "None"
Nothing == <<>>

VARIABLES chain, heap, pending_transactions, tickets, uuids, now, last

\* a mine() or proof_of_work() call in progress: the statement it is at, its
\* local new_block / block, and proof_of_work's local computed_hash
VARIABLES pc, block, computed_hash

\* the frame of the call in progress
locals == <<pc, block, computed_hash>>

vars == <<chain, heap, pending_transactions, tickets, uuids, now, last,
          pc, block, computed_hash>>

\* ---- strings and bytes ----
\* code point of a string value inside the serialization
StrCode(s) ==
  CASE s = None -> 0
    [] s = "Alice" -> 1
    [] s = "Bob" -> 2
    [] s = "Concert A" -> 3
    [] s = "issue" -> 4
    [] s = "transfer" -> 5
    [] s = "redeem" -> 6
    [] s = "Charlie" -> 7
    [] s = "Concert B" -> 8
    [] s = "Sports Event C" -> 9
    [] OTHER -> 10

\* TicketTransaction.__init__
TicketTransaction(tx_type, ticket_id, owner, event, new_owner, ts) ==
  [tx_type |-> tx_type, ticket_id |-> ticket_id, owner |-> owner,
   event |-> event, new_owner |-> new_owner, timestamp |-> ts]

\* TicketTransaction.to_dict under json.dumps(sort_keys=True):
\* event, new_owner, owner, ticket_id, timestamp, tx_type
TxTokens(tx) ==
  <<StrCode(tx.event), StrCode(tx.new_owner), StrCode(tx.owner),
    tx.ticket_id, tx.timestamp, StrCode(tx.tx_type)>>

\* [tx.to_dict() for tx in self.transactions], each dict closed by a separator
RECURSIVE TxListTokens(_, _)
TxListTokens(txs, i) ==
  IF i > Len(txs) THEN <<>>
  ELSE TxTokens(txs[i]) \o <<15>> \o TxListTokens(txs, i + 1)

\* Block.__init__ ; transactions is a reference to a list object
Block(index, transactions, previous_hash, nonce, ts) ==
  [index |-> index, transactions |-> transactions, timestamp |-> ts,
   previous_hash |-> previous_hash, nonce |-> nonce]

\* json.dumps(..., sort_keys=True): index, nonce, previous_hash, timestamp,
\* transactions; txbytes is the serialized transaction list
block_string(b, txbytes) ==
  <<b.index, b.nonce>> \o b.previous_hash \o <<b.timestamp>> \o txbytes

\* hashlib.sha256 shrunk to DigestRange digests (a prime below
\* HexBase ^ DigestLen, so that every byte of the input moves the digest)
RECURSIVE sha256(_, _, _)
sha256(bytes, i, acc) ==
  IF i > Len(bytes) THEN acc
  ELSE sha256(bytes, i + 1, (acc * 31 + bytes[i] + 1) % DigestRange)

\* hexdigest(): most significant digit first
hexdigest(n) ==
  [i \in 1..DigestLen |-> (n \div (HexBase ^ (DigestLen - i))) % HexBase]

\* lines 27-34 of compute_hash, given the serialized transaction list
hash_of(b, txbytes) == hexdigest(sha256(block_string(b, txbytes), 1, 7))

\* Block.compute_hash, the transaction list read from the heap h
compute_hash(b, h) == hash_of(b, TxListTokens(h[b.transactions], 1))

\* str.startswith
startswith(s, prefix) ==
  /\ Len(s) >= Len(prefix)
  /\ SubSeq(s, 1, Len(prefix)) = prefix

\* "0" * n
Zeros(n) == [i \in 1..n |-> 0]

\* TicketBlockchain.proof_of_work: the loop, from nonce n; the transaction
\* list does not change while the loop runs, so it is serialized once
RECURSIVE pow_loop(_, _, _)
pow_loop(b, txbytes, n) ==
  LET blk == [b EXCEPT !.nonce = n]
      computed == hash_of(blk, txbytes)
  IN IF startswith(computed, Zeros(difficulty))
       THEN [blk EXCEPT !.hash = computed]
       ELSE pow_loop(b, txbytes, n + 1)

\* the block after new_block.hash = self.proof_of_work(new_block)
proof_of_work(b, h) ==
  LET txbytes == TxListTokens(h[b.transactions], 1)
  IN pow_loop(b @@ [hash |-> <<>>], txbytes, 0)

\* Block(0, self.pending_transactions, "0"): the genesis block shares the pool's list
create_genesis_block_shared(self_pending, ts) ==
  LET genesis_block == Block(0, self_pending, <<0>>, 0, ts)
  IN genesis_block @@ [hash |-> compute_hash(genesis_block, <<<<>>, <<>>>>)]

\* TicketBlockchain.create_genesis_block; the list literal of line 44 is the
\* object allocated right after the pool's list of line 40
create_genesis_block(self_pending, ts) ==
  LET genesis_block == Block(0, self_pending + 1, <<0>>, 0, ts)
  IN genesis_block @@ [hash |-> compute_hash(genesis_block, <<<<>>, <<>>>>)]

\* time.time(): every reading is later than the one before
Clock == {now + 1}

\* number of transactions accepted so far (all list objects)
RECURSIVE SumLen(_)
SumLen(h) == IF h = <<>> THEN 0 ELSE Len(Head(h)) + SumLen(Tail(h))

TotalTxs == SumLen(heap)

\* TicketBlockchain.__init__
Init ==
  /\ now = 0
  /\ heap = <<<<>>, <<>>>>
  /\ pending_transactions = 1
  /\ chain = <<create_genesis_block(1, now)>>
  /\ tickets = <<>>
  /\ uuids = {}
  /\ last = [op |-> "init", args |-> <<>>, ret |-> Nothing]
  /\ pc = "idle"
  /\ block = Nothing
  /\ computed_hash = Nothing

\* self.pending_transactions.insert(0, transaction): newest first
add_transaction_front(h, transaction) ==
  [h EXCEPT ![pending_transactions] = <<transaction>> \o @]

\* TicketBlockchain.add_transaction
add_transaction(h, transaction) ==
  [h EXCEPT ![pending_transactions] = Append(@, transaction)]

\* dict item assignment
SetItem(d, k, v) == [i \in (DOMAIN d) \cup {k} |-> IF i = k THEN v ELSE d[i]]

\* dict.get(k, None), as an optional
get(d, k) == IF k \in DOMAIN d THEN <<d[k]>> ELSE Nothing

\* uuid.uuid4(): an identifier nobody has drawn before
uuid4 == {id \in TicketIds : id = Cardinality(uuids) + 1}

\* ticket ids a caller passes: those it was given and one that was never issued
TicketArgs == uuids \cup {0}

\* issue_ticket without line 68: the index is not updated
issue_ticket_noindex(owner, event) ==
  /\ TotalTxs < MaxTxs
  /\ \E ticket_id \in uuid4, t \in Clock :
       LET tx == TicketTransaction("issue", ticket_id, owner, event, None, t)
       IN /\ heap' = add_transaction(heap, tx)
          /\ uuids' = uuids \cup {ticket_id}
          /\ now' = t
          /\ last' = [op |-> "issue", args |-> <<>>, ret |-> ticket_id]
  /\ UNCHANGED <<chain, pending_transactions, tickets>>

\* issue_ticket with ticket_id = str(len(self.tickets)): the identifier of the
\* ticket issued last is handed out again
issue_ticket_reuse(owner, event) ==
  /\ TotalTxs < MaxTxs
  /\ \E ticket_id \in (IF uuids = {} THEN uuid4 ELSE {Cardinality(uuids)}), t \in Clock :
       LET tx == TicketTransaction("issue", ticket_id, owner, event, None, t)
       IN /\ heap' = add_transaction(heap, tx)
          /\ tickets' = SetItem(tickets, ticket_id,
                          [owner |-> owner, status |-> "valid", event |-> event])
          /\ uuids' = uuids \cup {ticket_id}
          /\ now' = t
          /\ last' = [op |-> "issue", args |-> <<>>, ret |-> ticket_id]
  /\ UNCHANGED <<chain, pending_transactions>>

\* TicketBlockchain.issue_ticket
issue_ticket(owner, event) ==
  /\ TotalTxs < MaxTxs
  /\ \E ticket_id \in uuid4, t \in Clock :
       LET tx == TicketTransaction("issue", ticket_id, owner, event, None, t)
       IN /\ heap' = add_transaction(heap, tx)
          /\ tickets' = SetItem(tickets, ticket_id,
                          [owner |-> owner, status |-> "valid", event |-> event])
          /\ uuids' = uuids \cup {ticket_id}
          /\ now' = t
          /\ last' = [op |-> "issue", args |-> <<>>, ret |-> ticket_id]
  /\ UNCHANGED <<chain, pending_transactions>>

\* transfer_ticket whose guard is only `if not ticket`
transfer_ticket_nostatus(ticket_id, new_owner) ==
  IF ticket_id \notin DOMAIN tickets
    THEN /\ last' = [op |-> "transfer", args |-> <<ticket_id>>, ret |-> FALSE]
         /\ UNCHANGED <<chain, heap, pending_transactions, tickets, uuids, now>>
    ELSE /\ TotalTxs < MaxTxs
         /\ \E t \in Clock :
              LET tx == TicketTransaction("transfer", ticket_id,
                                          tickets[ticket_id].owner, None, new_owner, t)
              IN /\ heap' = add_transaction(heap, tx)
                 /\ now' = t
         /\ tickets' = [tickets EXCEPT ![ticket_id].owner = new_owner]
         /\ last' = [op |-> "transfer", args |-> <<ticket_id>>, ret |-> TRUE]
         /\ UNCHANGED <<chain, pending_transactions, uuids>>

\* transfer_ticket with lines 74 and 76 swapped: the transaction records the
\* owner after the update
transfer_ticket_swapped(ticket_id, new_owner) ==
  IF ticket_id \notin DOMAIN tickets \/ tickets[ticket_id].status # "valid"
    THEN /\ last' = [op |-> "transfer", args |-> <<ticket_id>>, ret |-> FALSE]
         /\ UNCHANGED <<chain, heap, pending_transactions, tickets, uuids, now>>
    ELSE /\ TotalTxs < MaxTxs
         /\ \E t \in Clock :
              LET tx == TicketTransaction("transfer", ticket_id,
                                          new_owner, None, new_owner, t)
              IN /\ heap' = add_transaction(heap, tx)
                 /\ now' = t
         /\ tickets' = [tickets EXCEPT ![ticket_id].owner = new_owner]
         /\ last' = [op |-> "transfer", args |-> <<ticket_id>>, ret |-> TRUE]
         /\ UNCHANGED <<chain, pending_transactions, uuids>>

\* transfer_ticket without line 76: the index keeps the old owner
transfer_ticket_noupdate(ticket_id, new_owner) ==
  IF ticket_id \notin DOMAIN tickets \/ tickets[ticket_id].status # "valid"
    THEN /\ last' = [op |-> "transfer", args |-> <<ticket_id>>, ret |-> FALSE]
         /\ UNCHANGED <<chain, heap, pending_transactions, tickets, uuids, now>>
    ELSE /\ TotalTxs < MaxTxs
         /\ \E t \in Clock :
              LET tx == TicketTransaction("transfer", ticket_id,
                                          tickets[ticket_id].owner, None, new_owner, t)
              IN /\ heap' = add_transaction(heap, tx)
                 /\ now' = t
         /\ last' = [op |-> "transfer", args |-> <<ticket_id>>, ret |-> TRUE]
         /\ UNCHANGED <<chain, pending_transactions, tickets, uuids>>

\* TicketBlockchain.transfer_ticket
transfer_ticket(ticket_id, new_owner) ==
  IF ticket_id \notin DOMAIN tickets \/ tickets[ticket_id].status # "valid"
    THEN /\ last' = [op |-> "transfer", args |-> <<ticket_id>>, ret |-> FALSE]
         /\ UNCHANGED <<chain, heap, pending_transactions, tickets, uuids, now>>
    ELSE /\ TotalTxs < MaxTxs
         /\ \E t \in Clock :
              LET tx == TicketTransaction("transfer", ticket_id,
                                          tickets[ticket_id].owner, None, new_owner, t)
              IN /\ heap' = add_transaction(heap, tx)
                 /\ now' = t
         /\ tickets' = [tickets EXCEPT ![ticket_id].owner = new_owner]
         /\ last' = [op |-> "transfer", args |-> <<ticket_id>>, ret |-> TRUE]
         /\ UNCHANGED <<chain, pending_transactions, uuids>>

\* redeem_ticket that records the transaction before it validates the ticket
redeem_ticket_early(ticket_id) ==
  IF ticket_id \notin DOMAIN tickets \/ tickets[ticket_id].status # "valid"
    THEN /\ TotalTxs < MaxTxs
         /\ \E t \in Clock :
              LET tx == TicketTransaction("redeem", ticket_id, None, None, None, t)
              IN /\ heap' = add_transaction(heap, tx)
                 /\ now' = t
         /\ last' = [op |-> "redeem", args |-> <<ticket_id>>, ret |-> FALSE]
         /\ UNCHANGED <<chain, pending_transactions, tickets, uuids>>
    ELSE /\ TotalTxs < MaxTxs
         /\ \E t \in Clock :
              LET tx == TicketTransaction("redeem", ticket_id,
                                          tickets[ticket_id].owner, None, None, t)
              IN /\ heap' = add_transaction(heap, tx)
                 /\ now' = t
         /\ tickets' = [tickets EXCEPT ![ticket_id].status = "redeemed"]
         /\ last' = [op |-> "redeem", args |-> <<ticket_id>>, ret |-> TRUE]
         /\ UNCHANGED <<chain, pending_transactions, uuids>>

\* redeem_ticket without line 84: the ticket stays valid
redeem_ticket_nomark(ticket_id) ==
  IF ticket_id \notin DOMAIN tickets \/ tickets[ticket_id].status # "valid"
    THEN /\ last' = [op |-> "redeem", args |-> <<ticket_id>>, ret |-> FALSE]
         /\ UNCHANGED <<chain, heap, pending_transactions, tickets, uuids, now>>
    ELSE /\ TotalTxs < MaxTxs
         /\ \E t \in Clock :
              LET tx == TicketTransaction("redeem", ticket_id,
                                          tickets[ticket_id].owner, None, None, t)
              IN /\ heap' = add_transaction(heap, tx)
                 /\ now' = t
         /\ last' = [op |-> "redeem", args |-> <<ticket_id>>, ret |-> TRUE]
         /\ UNCHANGED <<chain, pending_transactions, tickets, uuids>>

\* redeem_ticket without the status test of line 79
redeem_ticket_again(ticket_id) ==
  IF ticket_id \notin DOMAIN tickets
    THEN /\ last' = [op |-> "redeem", args |-> <<ticket_id>>, ret |-> FALSE]
         /\ UNCHANGED <<chain, heap, pending_transactions, tickets, uuids, now>>
    ELSE /\ TotalTxs < MaxTxs
         /\ \E t \in Clock :
              LET tx == TicketTransaction("redeem", ticket_id,
                                          tickets[ticket_id].owner, None, None, t)
              IN /\ heap' = add_transaction(heap, tx)
                 /\ now' = t
         /\ tickets' = [tickets EXCEPT ![ticket_id].status = "redeemed"]
         /\ last' = [op |-> "redeem", args |-> <<ticket_id>>, ret |-> TRUE]
         /\ UNCHANGED <<chain, pending_transactions, uuids>>

\* TicketBlockchain.redeem_ticket
redeem_ticket(ticket_id) ==
  IF ticket_id \notin DOMAIN tickets \/ tickets[ticket_id].status # "valid"
    THEN /\ last' = [op |-> "redeem", args |-> <<ticket_id>>, ret |-> FALSE]
         /\ UNCHANGED <<chain, heap, pending_transactions, tickets, uuids, now>>
    ELSE /\ TotalTxs < MaxTxs
         /\ \E t \in Clock :
              LET tx == TicketTransaction("redeem", ticket_id,
                                          tickets[ticket_id].owner, None, None, t)
              IN /\ heap' = add_transaction(heap, tx)
                 /\ now' = t
         /\ tickets' = [tickets EXCEPT ![ticket_id].status = "redeemed"]
         /\ last' = [op |-> "redeem", args |-> <<ticket_id>>, ret |-> TRUE]
         /\ UNCHANGED <<chain, pending_transactions, uuids>>

\* verify_ticket with self.tickets.pop(ticket_id, None): the read removes the entry
verify_ticket_pop(ticket_id) ==
  /\ last' = [op |-> "verify", args |-> <<ticket_id>>, ret |-> get(tickets, ticket_id)]
  /\ tickets' = [i \in (DOMAIN tickets) \ {ticket_id} |-> tickets[i]]
  /\ UNCHANGED <<chain, heap, pending_transactions, uuids, now>>

\* TicketBlockchain.verify_ticket
verify_ticket(ticket_id) ==
  /\ last' = [op |-> "verify", args |-> <<ticket_id>>, ret |-> get(tickets, ticket_id)]
  /\ UNCHANGED <<chain, heap, pending_transactions, tickets, uuids, now>>

\* Block(len(self.chain), self.pending_transactions, "0"): every block linked
\* like the genesis block
new_block_unlinked(t) ==
  proof_of_work(Block(Len(chain), pending_transactions, <<0>>, 0, t), heap)

\* Block(len(self.chain) + 1, ...): indices counted from 1 after the genesis block
new_block_offset(t) ==
  proof_of_work(Block(Len(chain) + 1, pending_transactions,
                      compute_hash(chain[Len(chain)], heap), 0, t),
                heap)

\* lines 52-53 of mine: the unsealed block shares the pool's list, is linked to
\* the recomputed hash of the tip, and is then sealed
new_block(t) ==
  proof_of_work(Block(Len(chain), pending_transactions,
                      compute_hash(chain[Len(chain)], heap), 0, t),
                heap)

\* mine without line 55: the pool keeps the list that the block holds
mine_keep ==
  IF heap[pending_transactions] = <<>>
    THEN /\ last' = [op |-> "mine", args |-> <<>>, ret |-> Nothing]
         /\ UNCHANGED <<chain, heap, pending_transactions, tickets, uuids, now>>
    ELSE \E t \in Clock :
         LET sealed == new_block(t) IN
           /\ chain' = Append(chain, sealed)
           /\ now' = t
           /\ last' = [op |-> "mine", args |-> <<>>, ret |-> <<sealed>>]
           /\ UNCHANGED <<heap, pending_transactions, tickets, uuids>>

\* mine with self.pending_transactions.clear() for line 55: the list the
\* block holds is emptied
mine_clear ==
  IF heap[pending_transactions] = <<>>
    THEN /\ last' = [op |-> "mine", args |-> <<>>, ret |-> Nothing]
         /\ UNCHANGED <<chain, heap, pending_transactions, tickets, uuids, now>>
    ELSE \E t \in Clock :
         LET sealed == new_block(t) IN
           /\ chain' = Append(chain, sealed)
           /\ heap' = [heap EXCEPT ![pending_transactions] = <<>>]
           /\ now' = t
           /\ last' = [op |-> "mine", args |-> <<>>, ret |-> <<sealed>>]
           /\ UNCHANGED <<pending_transactions, tickets, uuids>>

\* mine without lines 50-51: an empty pool is sealed too
mine_noguard ==
  /\ Len(chain) <= MaxTxs
  /\ \E t \in Clock :
     LET sealed == new_block(t) IN
       /\ chain' = Append(chain, sealed)
       /\ heap' = Append(heap, <<>>)
       /\ pending_transactions' = Len(heap) + 1
       /\ now' = t
       /\ last' = [op |-> "mine", args |-> <<>>, ret |-> <<sealed>>]
       /\ UNCHANGED <<tickets, uuids>>

\* mine that also empties the index when it seals a block
mine_reindex ==
  IF heap[pending_transactions] = <<>>
    THEN /\ last' = [op |-> "mine", args |-> <<>>, ret |-> Nothing]
         /\ UNCHANGED <<chain, heap, pending_transactions, tickets, uuids, now>>
    ELSE \E t \in Clock :
         LET sealed == new_block(t) IN
           /\ chain' = Append(chain, sealed)
           /\ heap' = Append(heap, <<>>)
           /\ pending_transactions' = Len(heap) + 1
           /\ now' = t
           /\ last' = [op |-> "mine", args |-> <<>>, ret |-> <<sealed>>]
           /\ tickets' = <<>>
           /\ UNCHANGED uuids

\* TicketBlockchain.mine; line 55 binds the pool to a new list object
mine ==
  IF heap[pending_transactions] = <<>>
    THEN /\ last' = [op |-> "mine", args |-> <<>>, ret |-> Nothing]
         /\ UNCHANGED <<chain, heap, pending_transactions, tickets, uuids, now>>
    ELSE \E t \in Clock :
         LET sealed == new_block(t) IN
           /\ chain' = Append(chain, sealed)
           /\ heap' = Append(heap, <<>>)
           /\ pending_transactions' = Len(heap) + 1
           /\ now' = t
           /\ last' = [op |-> "mine", args |-> <<>>, ret |-> <<sealed>>]
           /\ UNCHANGED <<tickets, uuids>>

\* one caller: each call runs to its return before the next one starts
Next ==
  \/ \E i \in DOMAIN demo_tickets :
       issue_ticket(demo_tickets[i][1], demo_tickets[i][2]) /\ UNCHANGED locals
  \/ \E ticket_id \in TicketArgs, new_owner \in NewOwners :
       transfer_ticket(ticket_id, new_owner) /\ UNCHANGED locals
  \/ \E ticket_id \in TicketArgs : redeem_ticket(ticket_id) /\ UNCHANGED locals
  \/ \E ticket_id \in TicketArgs : verify_ticket(ticket_id) /\ UNCHANGED locals
  \/ mine /\ UNCHANGED locals

Spec == Init /\ [][Next]_vars

\* ---- mine() and proof_of_work() statement by statement ----
\* mine, lines 50-51: an empty pool returns None
mine_50 ==
  /\ pc = "idle"
  /\ IF heap[pending_transactions] = <<>>
       THEN /\ last' = [op |-> "mine", args |-> <<>>, ret |-> Nothing]
            /\ pc' = pc
       ELSE /\ pc' = "52"
            /\ last' = last
  /\ UNCHANGED <<chain, heap, pending_transactions, tickets, uuids, now,
                 block, computed_hash>>

\* mine, line 52: new_block holds the pool's list object
mine_52 ==
  /\ pc = "52"
  /\ \E t \in Clock :
       /\ block' = <<Block(Len(chain), pending_transactions,
                           compute_hash(chain[Len(chain)], heap), 0, t)>>
       /\ now' = t
  /\ pc' = "58"
  /\ UNCHANGED <<chain, heap, pending_transactions, tickets, uuids, last,
                 computed_hash>>

\* proof_of_work, line 58, with the nonce left as the caller passed it
pow_58_keep ==
  /\ pc = "58"
  /\ pc' = "59"
  /\ UNCHANGED <<chain, heap, pending_transactions, tickets, uuids, now, last,
                 block, computed_hash>>

\* proof_of_work, line 58: block.nonce = 0
pow_58 ==
  /\ pc = "58"
  /\ block' = <<[block[1] EXCEPT !.nonce = 0]>>
  /\ pc' = "59"
  /\ UNCHANGED <<chain, heap, pending_transactions, tickets, uuids, now, last,
                 computed_hash>>

\* proof_of_work, line 59: the hash of the block's fields and of its list as
\* they are now
pow_59 ==
  /\ pc = "59"
  /\ computed_hash' = compute_hash(block[1], heap)
  /\ pc' = "60"
  /\ UNCHANGED <<chain, heap, pending_transactions, tickets, uuids, now, last,
                 block>>

\* proof_of_work, line 60: the loop test
pow_60 ==
  /\ pc = "60"
  /\ pc' = IF startswith(computed_hash, Zeros(difficulty)) THEN "63" ELSE "61"
  /\ UNCHANGED <<chain, heap, pending_transactions, tickets, uuids, now, last,
                 block, computed_hash>>

\* proof_of_work, line 61, with the nonce not incremented
pow_61_stuck ==
  /\ pc = "61"
  /\ pc' = "62"
  /\ UNCHANGED <<chain, heap, pending_transactions, tickets, uuids, now, last,
                 block, computed_hash>>

\* proof_of_work, line 61: block.nonce += 1
pow_61 ==
  /\ pc = "61"
  /\ block' = <<[block[1] EXCEPT !.nonce = @ + 1]>>
  /\ pc' = "62"
  /\ UNCHANGED <<chain, heap, pending_transactions, tickets, uuids, now, last,
                 computed_hash>>

\* proof_of_work, line 62
pow_62 ==
  /\ pc = "62"
  /\ computed_hash' = compute_hash(block[1], heap)
  /\ pc' = "60"
  /\ UNCHANGED <<chain, heap, pending_transactions, tickets, uuids, now, last,
                 block>>

\* proof_of_work, line 63, when called on its own: return computed_hash
pow_63 ==
  /\ pc = "63"
  /\ last' = [last EXCEPT !.ret = computed_hash]
  /\ pc' = "done"
  /\ UNCHANGED <<chain, heap, pending_transactions, tickets, uuids, now,
                 block, computed_hash>>

\* proof_of_work, line 63, returning into mine, line 53: new_block.hash = ...
mine_53 ==
  /\ pc = "63"
  /\ block' = <<block[1] @@ [hash |-> computed_hash]>>
  /\ pc' = "54"
  /\ UNCHANGED <<chain, heap, pending_transactions, tickets, uuids, now, last,
                 computed_hash>>

\* mine, line 54: self.chain.append(new_block)
mine_54 ==
  /\ pc = "54"
  /\ chain' = Append(chain, block[1])
  /\ pc' = "55"
  /\ UNCHANGED <<heap, pending_transactions, tickets, uuids, now, last,
                 block, computed_hash>>

\* mine, lines 55-56: the pool is bound to a new list, new_block is returned
mine_55 ==
  /\ pc = "55"
  /\ heap' = Append(heap, <<>>)
  /\ pending_transactions' = Len(heap) + 1
  /\ last' = [op |-> "mine", args |-> <<>>, ret |-> block]
  /\ pc' = "idle"
  /\ block' = Nothing
  /\ computed_hash' = Nothing
  /\ UNCHANGED <<chain, tickets, uuids, now>>

\* the statements of a mine() call that has passed line 51
Running ==
  \/ mine_52
  \/ pow_58
  \/ pow_59
  \/ pow_60
  \/ pow_61
  \/ pow_62
  \/ mine_53
  \/ mine_54
  \/ mine_55

\* ---- callers that overlap: statements of mine() interleave with the calls
\* of other threads; nothing in the class takes a lock ----
ConcNext ==
  \/ \E i \in DOMAIN demo_tickets :
       issue_ticket(demo_tickets[i][1], demo_tickets[i][2]) /\ UNCHANGED locals
  \/ \E ticket_id \in TicketArgs, new_owner \in NewOwners :
       transfer_ticket(ticket_id, new_owner) /\ UNCHANGED locals
  \/ \E ticket_id \in TicketArgs : redeem_ticket(ticket_id) /\ UNCHANGED locals
  \/ mine_50
  \/ Running

ConcSpec == Init /\ [][ConcNext]_vars

\* ---- one caller, mine() statement by statement ----
StepNext ==
  \/ /\ pc = "idle"
     /\ \E i \in DOMAIN demo_tickets :
          issue_ticket(demo_tickets[i][1], demo_tickets[i][2])
     /\ UNCHANGED locals
  \/ mine_50
  \/ Running

\* a call that has started keeps executing its statements
StepSpec == Init /\ [][StepNext]_vars /\ WF_vars(Running)

\* ---- proof_of_work(block) called on its own ----
\* a ledger on which issue_ticket was called for demo_tickets[f[1]], ... in
\* turn, and proof_of_work called on Block(len(chain), pending, tip, nonce)
PowInit ==
  \E n \in 1..MaxTxs : \E f \in [1..n -> DOMAIN demo_tickets] :
    \E nonce \in 0..MaxNonce :
      /\ now = n + 1
      /\ heap = <<[i \in 1..n |->
                     TicketTransaction("issue", i, demo_tickets[f[i]][1],
                                       demo_tickets[f[i]][2], None, i)],
                  <<>>>>
      /\ pending_transactions = 1
      /\ chain = <<create_genesis_block(1, 0)>>
      /\ tickets = [i \in 1..n |->
                      [owner |-> demo_tickets[f[i]][1], status |-> "valid",
                       event |-> demo_tickets[f[i]][2]]]
      /\ uuids = 1..n
      /\ last = [op |-> "proof_of_work", args |-> <<nonce>>, ret |-> Nothing]
      /\ block = <<Block(1, 1, create_genesis_block(1, 0).hash, nonce, n + 1)>>
      /\ pc = "58"
      /\ computed_hash = Nothing

PowNext ==
  \/ pow_58
  \/ pow_59
  \/ pow_60
  \/ pow_61
  \/ pow_62
  \/ pow_63

PowSpec == PowInit /\ [][PowNext]_vars

\* ---- views of the ledger used by the properties ----
\* the transaction list of a block
Txs(b) == heap[b.transactions]

\* the pending pool, by value
Pending == heap[pending_transactions]

\* the chain by value: each block with the contents of its transaction list
ChainView ==
  [i \in DOMAIN chain |-> [chain[i] EXCEPT !.transactions = heap[chain[i].transactions]]]

\* the hash recomputed from the fields a block stores now
Recomputed(b) == compute_hash(b, heap)

MeetsDifficulty(hash) == startswith(hash, Zeros(difficulty))

\* a transaction but for its creation time
SameTx(tx, tx_type, ticket_id, owner, event, new_owner) ==
  /\ tx.tx_type = tx_type
  /\ tx.ticket_id = ticket_id
  /\ tx.owner = owner
  /\ tx.event = event
  /\ tx.new_owner = new_owner

\* pending' is pending with exactly one transaction added at the end
OneAppended ==
  /\ pending_transactions' = pending_transactions
  /\ Len(Pending') = Len(Pending) + 1
  /\ SubSeq(Pending', 1, Len(Pending)) = Pending

TypeOK ==
  /\ pending_transactions \in DOMAIN heap
  /\ \A i \in DOMAIN chain : chain[i].transactions \in DOMAIN heap
  /\ DOMAIN tickets \subseteq TicketIds
  /\ now \in Nat

\* ---- C1 ----
\* C1: for every position i > 0 of the chain, chain[i].previous_hash is the
\* stored hash of chain[i-1].
C1_ChainLinkage ==
  \A i \in 2..Len(chain) : chain[i].previous_hash = chain[i - 1].hash

\* two blocks were mined, each linked to a sealed predecessor
C1_Witness ==
  /\ Len(chain) >= 3
  /\ chain[3].previous_hash = chain[2].hash
  /\ chain[2].previous_hash # chain[3].previous_hash

\* ---- C2 ----
\* C2: the stored hash of every block of the chain, the genesis block
\* included, begins with `difficulty` zero digits.
C2_AllBlocksMeetDifficulty ==
  \A i \in DOMAIN chain : MeetsDifficulty(chain[i].hash)

\* ---- C3 ----
\* C3: the hash recomputed from the stored fields of any block of the chain
\* is the block's stored hash, and no step changes a field of a block that is
\* already in the chain.
C3_HashReproducible ==
  /\ [](\A i \in DOMAIN chain : Recomputed(chain[i]) = chain[i].hash)
  /\ [][\A i \in DOMAIN chain :
          /\ i \in DOMAIN chain'
          /\ ChainView'[i] = ChainView[i]]_vars

\* a mined block is in the chain and the pool has taken a transaction since
C3_Witness ==
  /\ Len(chain) >= 2
  /\ Txs(chain[2]) # <<>>
  /\ Pending # <<>>
  /\ Recomputed(chain[2]) = chain[2].hash

\* ---- C4 ----
\* C4: the chain is never empty and chain[0] is the genesis block (index 0,
\* no transactions, previous_hash "0"); no step replaces or modifies it.
C4_GenesisFixed ==
  /\ [](/\ Len(chain) >= 1
        /\ chain[1].index = 0
        /\ Txs(chain[1]) = <<>>
        /\ chain[1].previous_hash = <<0>>)
  /\ [][ChainView'[1] = ChainView[1]]_vars

\* transactions were accepted and mined, and the genesis block is still first
C4_Witness ==
  /\ Len(chain) >= 2
  /\ Pending # <<>>
  /\ chain[1].index = 0
  /\ Txs(chain[1]) = <<>>

\* ---- C5 ----
\* C5: once a ticket is redeemed, every step leaves its index entry as it is,
\* and a transfer or redeem of it returns false and leaves pending as it is.
C5_RedeemTerminal ==
  [][\A id \in DOMAIN tickets :
       tickets[id].status = "redeemed" =>
         /\ id \in DOMAIN tickets'
         /\ tickets'[id] = tickets[id]
         /\ (last'.op \in {"transfer", "redeem"} /\ last'.args = <<id>>) =>
              /\ last'.ret = FALSE
              /\ pending_transactions' = pending_transactions
              /\ Pending' = Pending]_vars

\* a redeemed ticket whose redeem transaction is mined was offered for transfer
C5_Witness ==
  \E id \in DOMAIN tickets :
    /\ tickets[id].status = "redeemed"
    /\ Len(chain) >= 2
    /\ \E k \in DOMAIN Txs(chain[Len(chain)]) :
         SameTx(Txs(chain[Len(chain)])[k], "redeem", id, tickets[id].owner, None, None)
    /\ last.op = "transfer"
    /\ last.args = <<id>>
    /\ last.ret = FALSE

\* ---- C6 ----
\* C6: transfer and redeem of a ticket_id that is not in the index return
\* false and leave tickets, pending and chain unchanged.
C6_UnknownTicketRejected ==
  [][(last'.op \in {"transfer", "redeem"} /\ last'.args[1] \notin DOMAIN tickets) =>
       /\ last'.ret = FALSE
       /\ tickets' = tickets
       /\ pending_transactions' = pending_transactions
       /\ Pending' = Pending
       /\ ChainView' = ChainView]_vars

\* a redeem of an id that was never issued, with transactions in the pool
C6_Witness ==
  /\ last.op = "redeem"
  /\ last.args[1] \notin DOMAIN tickets
  /\ last.ret = FALSE
  /\ Pending # <<>>
  /\ DOMAIN tickets # {}

\* ---- C7 ----
\* C7: mine() with a non-empty pool appends exactly one block, whose index is
\* the chain length before the call and whose transactions are the pending
\* transactions in order; pending is empty afterwards and the returned block
\* is the new tip.
C7_MineSealsPending ==
  [][(last'.op = "mine" /\ Pending # <<>>) =>
       /\ Len(chain') = Len(chain) + 1
       /\ SubSeq(ChainView', 1, Len(chain)) = ChainView
       /\ chain'[Len(chain')].index = Len(chain)
       /\ ChainView'[Len(chain')].transactions = Pending
       /\ Pending' = <<>>
       /\ last'.ret = <<chain'[Len(chain')]>>]_vars

\* a block of two transactions was just mined
C7_Witness ==
  /\ last.op = "mine"
  /\ last.ret = <<chain[Len(chain)]>>
  /\ Len(Txs(chain[Len(chain)])) >= 2
  /\ Pending = <<>>

\* ---- C8 ----
\* C8: mine() with an empty pool returns none and leaves chain, pending and
\* tickets unchanged.
C8_MineEmptyNoop ==
  [][(last'.op = "mine" /\ Pending = <<>>) =>
       /\ last'.ret = Nothing
       /\ ChainView' = ChainView
       /\ pending_transactions' = pending_transactions
       /\ Pending' = Pending
       /\ tickets' = tickets]_vars

\* mine() returned none on a ledger that already holds a mined block
C8_Witness ==
  /\ last.op = "mine"
  /\ last.ret = Nothing
  /\ Len(chain) >= 2
  /\ Pending = <<>>

\* ---- C9 ----
\* C9: issue(owner, event) returns an id that was not in the index, appends
\* one issue transaction for it to pending, inserts {owner, valid, event}
\* under it so that verify(id) returns that state, and leaves the other
\* entries and the chain unchanged.
C9_IssueEffect ==
  [][\A owner \in Owners, event \in Events :
       issue_ticket(owner, event) =>
         LET id == last'.ret
             state == [owner |-> owner, status |-> "valid", event |-> event]
         IN /\ last'.op = "issue"
            /\ id \notin DOMAIN tickets
            /\ OneAppended
            /\ SameTx(Pending'[Len(Pending')], "issue", id, owner, event, None)
            /\ DOMAIN tickets' = DOMAIN tickets \cup {id}
            /\ get(tickets', id) = <<state>>
            /\ \A other \in DOMAIN tickets : tickets'[other] = tickets[other]
            /\ ChainView' = ChainView]_vars

\* the second ticket was just issued, not yet mined
C9_Witness ==
  /\ last.op = "issue"
  /\ Cardinality(DOMAIN tickets) >= 2
  /\ get(tickets, last.ret) # Nothing
  /\ Pending # <<>>

\* ---- C10 ----
\* C10: transfer(ticket_id, new_owner) of a valid ticket returns true, appends
\* one transfer transaction (owner = the owner before the call, new_owner =
\* the argument), sets the entry's owner to new_owner and leaves its status
\* and event, every other ticket and the chain unchanged.
C10_TransferEffect ==
  [][\A id \in DOMAIN tickets, new_owner \in Owners :
       (transfer_ticket(id, new_owner) /\ tickets[id].status = "valid") =>
         /\ last'.op = "transfer"
         /\ last'.ret = TRUE
         /\ OneAppended
         /\ SameTx(Pending'[Len(Pending')], "transfer", id, tickets[id].owner,
                   None, new_owner)
         /\ tickets' = [tickets EXCEPT ![id].owner = new_owner]
         /\ ChainView' = ChainView]_vars

\* a transfer to a different owner succeeded
C10_Witness ==
  /\ last.op = "transfer"
  /\ last.ret = TRUE
  /\ Pending # <<>>
  /\ LET tx == Pending[Len(Pending)]
     IN /\ tx.tx_type = "transfer"
        /\ tx.owner # tx.new_owner
        /\ tickets[tx.ticket_id].owner = tx.new_owner

\* ---- C11 ----
\* C11: redeem(ticket_id) of a valid ticket returns true, appends one redeem
\* transaction (owner = the ticket's owner) to pending, sets the entry's
\* status to redeemed and leaves its owner and event, every other ticket and
\* the chain unchanged.
C11_RedeemEffect ==
  [][\A id \in DOMAIN tickets :
       (redeem_ticket(id) /\ tickets[id].status = "valid") =>
         /\ last'.op = "redeem"
         /\ last'.ret = TRUE
         /\ OneAppended
         /\ SameTx(Pending'[Len(Pending')], "redeem", id, tickets[id].owner, None, None)
         /\ tickets' = [tickets EXCEPT ![id].status = "redeemed"]
         /\ ChainView' = ChainView]_vars

\* a redeem just succeeded on a ticket that had been transferred
C11_Witness ==
  /\ last.op = "redeem"
  /\ last.ret = TRUE
  /\ Len(Pending) >= 2
  /\ LET tx == Pending[Len(Pending)]
         before == Pending[Len(Pending) - 1]
     IN /\ tx.tx_type = "redeem"
        /\ before.tx_type = "transfer"
        /\ before.ticket_id = tx.ticket_id
        /\ tx.owner = before.new_owner
        /\ tickets[tx.ticket_id].status = "redeemed"

\* ---- C12 ----
\* all transactions of the ledger: the blocks' lists in chain order, then pending
RECURSIVE ChainTxs(_)
ChainTxs(n) == IF n = 0 THEN <<>> ELSE ChainTxs(n - 1) \o Txs(chain[n])

Ledger == ChainTxs(Len(chain)) \o Pending

\* the effect of one transaction on an index
Apply(index, tx) ==
  CASE tx.tx_type = "issue" ->
         SetItem(index, tx.ticket_id,
                 [owner |-> tx.owner, status |-> "valid", event |-> tx.event])
    [] tx.tx_type = "transfer" ->
         [index EXCEPT ![tx.ticket_id].owner = tx.new_owner]
    [] tx.tx_type = "redeem" ->
         [index EXCEPT ![tx.ticket_id].status = "redeemed"]

\* the index rebuilt from the first n transactions of txs
RECURSIVE Replay(_, _)
Replay(txs, n) == IF n = 0 THEN <<>> ELSE Apply(Replay(txs, n - 1), txs[n])

\* C12: the ticket index equals the index obtained by replaying, from an empty
\* index, the transactions of the chain in chain order followed by pending.
C12_IndexIsReplay == tickets = Replay(Ledger, Len(Ledger))

\* a mined issue, and a transfer and a redeem of that ticket still pending
C12_Witness ==
  /\ Len(chain) >= 2
  /\ Len(Pending) >= 2
  /\ Len(Ledger) >= 3
  /\ Ledger[1].tx_type = "issue"
  /\ Ledger[2].tx_type = "transfer"
  /\ Ledger[3].tx_type = "redeem"
  /\ tickets = Replay(Ledger, 3)

\* ---- C13 ----
\* C13: verify(ticket_id) leaves chain, pending and tickets unchanged and
\* returns the ticket's state, or not-found when the id is not in the index;
\* a verify repeated with no mutation in between returns the same result.
C13_VerifyPure ==
  [][/\ \A id \in TicketArgs :
          verify_ticket(id) =>
            /\ last'.op = "verify"
            /\ last'.ret = (IF id \in DOMAIN tickets THEN <<tickets[id]>> ELSE Nothing)
            /\ tickets' = tickets
            /\ pending_transactions' = pending_transactions
            /\ Pending' = Pending
            /\ ChainView' = ChainView
            /\ get(tickets', id) = last'.ret
     /\ (last.op = "verify" /\ last'.op = "verify" /\ last'.args = last.args) =>
          last'.ret = last.ret]_vars

\* a verify returned the state of a redeemed ticket
C13_Witness ==
  /\ last.op = "verify"
  /\ last.args[1] \in DOMAIN tickets
  /\ last.ret = <<tickets[last.args[1]]>>
  /\ tickets[last.args[1]].status = "redeemed"

\* ---- C14 ----
\* the pool holds exactly the issues of demo_tickets, in order, and nothing
\* else was ever accepted
DemoIssued ==
  /\ Len(chain) = 1
  /\ Len(Pending) = Len(demo_tickets)
  /\ Cardinality(DOMAIN tickets) = Len(demo_tickets)
  /\ \A i \in DOMAIN demo_tickets :
       SameTx(Pending[i], "issue", Pending[i].ticket_id,
              demo_tickets[i][1], demo_tickets[i][2], None)

\* C14: on a fresh ledger, after issuing (Alice, Concert A), (Bob, Concert B),
\* (Charlie, Sports Event C) and mining once, the chain has two blocks, block 1
\* holds exactly those three issue transactions in that order, the pool is
\* empty and the three returned ids are valid in the index.
C14_DemoPreload ==
  [][(DemoIssued /\ mine) =>
       /\ Len(chain') = 2
       /\ chain'[2].index = 1
       /\ heap'[chain'[2].transactions] = Pending
       /\ Pending' = <<>>
       /\ \A i \in DOMAIN demo_tickets :
            get(tickets', Pending[i].ticket_id) =
              <<[owner |-> demo_tickets[i][1], status |-> "valid",
                 event |-> demo_tickets[i][2]]>>]_vars

\* the preload has just been mined
C14_Witness ==
  /\ last.op = "mine"
  /\ last.ret # Nothing
  /\ Len(chain) = 2
  /\ Pending = <<>>
  /\ Len(Txs(chain[2])) = Len(demo_tickets)
  /\ \A i \in DOMAIN demo_tickets :
       /\ Txs(chain[2])[i].owner = demo_tickets[i][1]
       /\ Txs(chain[2])[i].event = demo_tickets[i][2]
       /\ Txs(chain[2])[i].tx_type = "issue"

\* ---- C15 ----
\* the list objects that hold a transaction and the places that refer to them
Sealing(l) == {i \in DOMAIN chain : chain[i].transactions = l}

\* C15: with issue, transfer and redeem calls interleaving with the statements
\* of mine(), every sealed block's stored hash is the hash of the transactions
\* the block stores, and once mine() has returned every accepted transaction
\* is in exactly one sealed block or in the pool.
C15_MineAtomic ==
  /\ \A i \in DOMAIN chain : chain[i].hash = Recomputed(chain[i])
  /\ pc = "idle" =>
       \A l \in DOMAIN heap :
         heap[l] # <<>> =>
           IF l = pending_transactions
             THEN Sealing(l) = {}
             ELSE Cardinality(Sealing(l)) = 1

\* ---- C16 ----
\* C16: every block at index >= 1 holds at least one transaction; the genesis
\* block is the only one with an empty list.
C16_OnlyGenesisEmpty ==
  /\ Txs(chain[1]) = <<>>
  /\ \A i \in 2..Len(chain) : Txs(chain[i]) # <<>>

\* mine() was called on an empty pool after a block had been mined
C16_Witness ==
  /\ Len(chain) >= 2
  /\ Txs(chain[Len(chain)]) # <<>>
  /\ last.op = "mine"
  /\ last.ret = Nothing

\* ---- C17 ----
\* C17: across every step the chain before is a prefix of the chain after;
\* the chain grows only by mine() with a non-empty pool, by exactly one block;
\* issue, transfer, redeem and verify never change it.
C17_AppendOnly ==
  [][/\ Len(chain') >= Len(chain)
     /\ SubSeq(ChainView', 1, Len(chain)) = ChainView
     /\ Len(chain') # Len(chain) =>
          /\ last'.op = "mine"
          /\ Pending # <<>>
          /\ Len(chain') = Len(chain) + 1
     /\ last'.op \in {"issue", "transfer", "redeem", "verify"} =>
          ChainView' = ChainView]_vars

\* a transaction was accepted after two blocks had been mined
C17_Witness ==
  /\ Len(chain) >= 3
  /\ last.op = "issue"
  /\ Pending # <<>>

\* ---- C18 ----
\* C18: an id in the index stays in the index, its event never changes, its
\* status is valid or redeemed and never goes back from redeemed to valid,
\* and its owner changes only by a successful transfer of that ticket.
C18_IndexMonotone ==
  [][/\ \A id \in DOMAIN tickets' : tickets'[id].status \in {"valid", "redeemed"}
     /\ \A id \in DOMAIN tickets :
          /\ id \in DOMAIN tickets'
          /\ tickets'[id].event = tickets[id].event
          /\ tickets[id].status = "redeemed" => tickets'[id].status = "redeemed"
          /\ tickets'[id].owner # tickets[id].owner =>
               /\ last'.op = "transfer"
               /\ last'.args = <<id>>
               /\ last'.ret = TRUE]_vars

\* a ticket was redeemed and a second ticket issued after it
C18_Witness ==
  \E id \in DOMAIN tickets :
    /\ tickets[id].status = "redeemed"
    /\ Cardinality(DOMAIN tickets) >= 2
    /\ last.op = "issue"
    /\ last.ret # id

\* ---- C19 ----
\* C19: proof_of_work sets the nonce to 0 whatever it was, raises it by one
\* per iteration and changes no other field; when it returns, the nonce is
\* the least one whose hash starts with `difficulty` zeros and the returned
\* value is the hash with that nonce.
C19_PowLeastNonce ==
  [][/\ pow_58 => block'[1].nonce = 0
     /\ pow_61 => block'[1].nonce = block[1].nonce + 1
     /\ [block'[1] EXCEPT !.nonce = 0] = [block[1] EXCEPT !.nonce = 0]
     /\ heap' = heap
     /\ pow_63 =>
          /\ MeetsDifficulty(Recomputed(block[1]))
          /\ \A n \in 0..(block[1].nonce - 1) :
               ~MeetsDifficulty(Recomputed([block[1] EXCEPT !.nonce = n]))
          /\ last'.ret = Recomputed(block[1])
          /\ block' = block]_vars

\* proof_of_work returned a nonce below the one the block came with
C19_Witness ==
  /\ pc = "done"
  /\ last.op = "proof_of_work"
  /\ block[1].nonce > 0
  /\ last.args[1] > block[1].nonce
  /\ MeetsDifficulty(last.ret)

\* ---- C20 ----
\* C20: a mine() call that finds the pool non-empty returns a sealed block
\* whose hash meets the difficulty, and the proof-of-work loop is left only
\* with a hash that meets it.
C20_MineTerminates ==
  /\ (pc = "52") ~> (/\ pc = "idle"
                     /\ last.op = "mine"
                     /\ last.ret # Nothing
                     /\ last.ret[1] = chain[Len(chain)]
                     /\ MeetsDifficulty(last.ret[1].hash))
  /\ [][(pc = "60" /\ pc' # "60") =>
          IF MeetsDifficulty(computed_hash) THEN pc' = "63" ELSE pc' = "61"]_vars
  /\ [][(pc \notin {"idle", "55"}) => pc' # "idle"]_vars

\* a mine() call returned a block after the loop had run at least twice
C20_Witness ==
  /\ pc = "idle"
  /\ last.op = "mine"
  /\ last.ret # Nothing
  /\ last.ret[1].nonce >= 2
  /\ MeetsDifficulty(last.ret[1].hash)

\* ---- C21 ----
\* C21: mine() leaves the ticket index as it was, whether it seals a block or
\* returns none: the same ids with the same owner, status and event, so every
\* verify answers after the call what it answered before.
C21_MineKeepsIndex ==
  [][last'.op = "mine" =>
       /\ DOMAIN tickets' = DOMAIN tickets
       /\ \A id \in DOMAIN tickets : tickets'[id] = tickets[id]
       /\ \A id \in TicketArgs : get(tickets', id) = get(tickets, id)]_vars

\* a block was sealed while the index held a redeemed and a valid ticket
C21_Witness ==
  /\ last.op = "mine"
  /\ last.ret # Nothing
  /\ \E id \in DOMAIN tickets : tickets[id].status = "redeemed"
  /\ \E id \in DOMAIN tickets : tickets[id].status = "valid"

\* ---- C22 ----
\* the call that has just returned was accepted
Accepted(l) ==
  \/ l.op = "issue"
  \/ l.op \in {"transfer", "redeem"} /\ l.ret = TRUE

\* C22: the transactions of the chain in chain order followed by the pool are
\* the accepted transactions in acceptance order: an accepted issue, transfer
\* or redeem adds its transaction at the end, and a failed call, a verify or
\* a mine leaves the sequence as it was.
C22_LedgerIsHistory ==
  [][IF Accepted(last')
       THEN /\ Len(Ledger') = Len(Ledger) + 1
            /\ SubSeq(Ledger', 1, Len(Ledger)) = Ledger
            /\ Ledger'[Len(Ledger')].tx_type = last'.op
            /\ Ledger'[Len(Ledger')].timestamp = now'
       ELSE Ledger' = Ledger]_vars

\* a transfer was refused after accepted transactions had been sealed and pooled
C22_Witness ==
  /\ last.op = "transfer"
  /\ last.ret = FALSE
  /\ Len(chain) >= 2
  /\ Pending # <<>>
  /\ Len(Ledger) >= 3

\* ---- C23 ----
\* the transactions of the ledger that mention a ticket, in ledger order
TxsOf(id) == SelectSeq(Ledger, LAMBDA tx : tx.ticket_id = id)

\* C23: the transactions of each ticket are one issue, then transfers, then at
\* most one redeem, which is last; each transfer or redeem names as owner the
\* new_owner of the transfer before it, or the issue's owner.
C23_TicketHistory ==
  \A id \in TicketIds :
    LET s == TxsOf(id)
    IN /\ id \in DOMAIN tickets <=> s # <<>>
       /\ s # <<>> => s[1].tx_type = "issue"
       /\ \A k \in 2..Len(s) :
            /\ s[k].tx_type \in {"transfer", "redeem"}
            /\ s[k - 1].tx_type # "redeem"
            /\ s[k].owner = IF s[k - 1].tx_type = "transfer"
                              THEN s[k - 1].new_owner
                              ELSE s[k - 1].owner

\* a ticket issued to one owner, transferred to another and redeemed by them,
\* each transaction in a block of its own
C23_Witness ==
  /\ Len(chain) = 4
  /\ \E id \in DOMAIN tickets :
       LET s == TxsOf(id)
       IN /\ Len(s) = 3
          /\ s[2].tx_type = "transfer"
          /\ s[2].new_owner # s[1].owner
          /\ s[3].tx_type = "redeem"
          /\ s[3].owner = s[2].new_owner

\* ---- C24 ----
\* C24: every block's index is its 0-based position in the chain.
C24_IndexIsPosition ==
  \A i \in DOMAIN chain : chain[i].index = i - 1

\* three blocks were mined after the genesis block
C24_Witness ==
  /\ Len(chain) = 4
  /\ chain[4].index = 3
  /\ \A i \in 2..4 : Len(Txs(chain[i])) = 1
====
